---- MODULE Spec2Model ----
(***************************************************************************)
(* Runtime Interface Client of lambda-at-home: the three transports that   *)
(* feed invocations to a user handler.                                     *)
(*   Push   : runtimes/python-ric/src/runtime.py   (Flask /invoke server)  *)
(*   Poll   : runtimes/python311/bootstrap.py      (long-poll loop)        *)
(*   Stream : service/runtimes/python311/bootstrap-websocket.py            *)
(* A process runs one transport; each has its own specification            *)
(* (PushSpec, PollSpec, StreamSpec) over the shared variables.             *)
(***************************************************************************)
EXTENDS Integers, Sequences, FiniteSets, TLC

VARIABLES
    \* ---- Push Transport (RuntimeInterface) ----
    pushPc,             \* "created" | "serving" | "exited" (start / init / sys.exit)
    is_shutting_down,   \* RuntimeInterface.is_shutting_down
    inflight,           \* /invoke requests between the shutdown check and the response
    lastDone,           \* the /invoke request that completed last, with its response
    lastHealth,         \* the /health request answered last, with its answer
    \* ---- Poll Transport (bootstrap.main) ----
    pollPc,             \* position of the loop of main()
    invocation,         \* the invocation fetched by get_next_invocation
    result,             \* the handler's outcome for that invocation
    posts,              \* POSTs attempted for that invocation, in order
    pollCalls,          \* handler calls made for that invocation
    pollError,          \* the exception bound by "except Exception as error"
    fetchFailures,      \* consecutive failed fetches
    pollWait,           \* seconds of the time.sleep being performed (0: none)
    \* ---- Stream Transport (WebSocketRuntime) ----
    wsPc,               \* where the main task is: "connect" | "recv" | "handler" |
                        \* "sleep" | "unwind" | "done"
    depth,              \* handle_reconnect frames waiting in "await self.connect()"
    websocket,          \* self.websocket: "None" | "open" | "closing" | "closed"
    reconnect_attempts, \* self.reconnect_attempts
    reconnect_delay,    \* self.reconnect_delay, in seconds
    is_connected,       \* self.is_connected
    should_stop,        \* self.should_stop
    shutdownPc,         \* the task signal_handler creates: "idle" | "scheduled" | "done"
    cur,                \* the inbound frame taken from the socket last
    curCalls,           \* events the handler was called with for cur
    curSent,            \* messages written to the socket since cur arrived
    registered,         \* register messages written on the current connection
    waits,              \* the delays slept by handle_reconnect, in order
    connectCalls,       \* calls of websockets.connect
    connections,        \* calls of websockets.connect that succeeded
    fallbackCalls,      \* calls of fallback_to_http
    \* ---- Handler loading (all transports) ----
    handler,            \* the handler binding: "None" | "callable" | "not_callable"
    loadLog,            \* the resolutions of the handler reference, in order
    exitStatus          \* the status given to sys.exit: <<>> while the process runs

pushVars == <<pushPc, is_shutting_down, inflight, lastDone, lastHealth>>
pollVars ==
    <<pollPc, invocation, result, posts, pollCalls, pollError, fetchFailures, pollWait>>
wsVars ==
    <<wsPc, depth, websocket, reconnect_attempts, reconnect_delay, is_connected,
      should_stop, shutdownPc>>
wsLog == <<cur, curCalls, curSent, registered, waits, connectCalls, connections, fallbackCalls>>
streamVars == <<wsVars, wsLog>>
loadVars == <<handler, loadLog, exitStatus>>
vars == <<pushVars, pollVars, streamVars, loadVars>>

-----------------------------------------------------------------------------
(* Bounds of the model *)

\* /invoke requests that may be in flight at once
MaxInFlight == 1
\* consecutive fetch failures followed in the poll loop
MaxFetchFailures == 3
\* connections the Runtime API accepts before it refuses every attempt
MaxConnections == 1

-----------------------------------------------------------------------------
(* Python values: JSON documents, bytes and exceptions *)

None == [kind |-> "None"]

PyDict(d) == [kind |-> "dict", val |-> d]

PyBytes(b) == [kind |-> "bytes", val |-> b]

\* the payload of the tests, {"test": "data"}
TestData == PyDict([test |-> "data"])

\* a payload that carries the base64 marker, {"base64": true, "data": "AQI="}
MarkedData == PyDict([base64 |-> TRUE, data |-> <<"A", "Q", "I", "=">>])

\* the objects a payload may encode: {"test": "data"} and {"success": true}
JsonObjects == {PyDict([test |-> "data"]), PyDict([success |-> TRUE])}

\* json.dumps(o).encode(): the UTF-8 text of the object
JsonText(o) ==
    IF o = PyDict([test |-> "data"])
    THEN <<123, 34, 116, 101, 115, 116, 34, 58, 32, 34, 100, 97, 116, 97, 34, 125>>
    ELSE <<123, 34, 115, 117, 99, 99, 101, 115, 115, 34, 58, 32, 116, 114, 117, 101, 125>>

\* json.loads(text): the object a text stands for
JsonParse(text) == CHOOSE o \in JsonObjects : JsonText(o) = text

\* byte strings a handler may return (one, two and three bytes)
BinarySamples == {<<255>>, <<1, 2>>, <<77, 97, 110>>}

B64Alphabet ==
    << "A","B","C","D","E","F","G","H","I","J","K","L","M","N","O","P",
       "Q","R","S","T","U","V","W","X","Y","Z","a","b","c","d","e","f",
       "g","h","i","j","k","l","m","n","o","p","q","r","s","t","u","v",
       "w","x","y","z","0","1","2","3","4","5","6","7","8","9","+","/" >>

\* one group of 1..3 bytes to 4 characters, padded with "="
B64Group(g) ==
    LET n == g[1] * 65536
             + (IF Len(g) >= 2 THEN g[2] * 256 ELSE 0)
             + (IF Len(g) >= 3 THEN g[3] ELSE 0)
    IN  << B64Alphabet[(n \div 262144) + 1],
           B64Alphabet[((n \div 4096) % 64) + 1],
           IF Len(g) >= 2 THEN B64Alphabet[((n \div 64) % 64) + 1] ELSE "=",
           IF Len(g) >= 3 THEN B64Alphabet[(n % 64) + 1] ELSE "=" >>

RECURSIVE b64encode(_)
b64encode(b) ==
    IF Len(b) = 0 THEN <<>>
    ELSE IF Len(b) <= 3 THEN B64Group(b)
    ELSE B64Group(SubSeq(b, 1, 3)) \o b64encode(SubSeq(b, 4, Len(b)))

B64Index(c) == CHOOSE i \in 1..64 : B64Alphabet[i] = c

\* four characters back to 1..3 bytes (the receiving side's decoder)
B64Ungroup(q) ==
    LET v(i) == IF q[i] = "=" THEN 0 ELSE B64Index(q[i]) - 1
        n    == v(1) * 262144 + v(2) * 4096 + v(3) * 64 + v(4)
        b1   == n \div 65536
        b2   == (n \div 256) % 256
        b3   == n % 256
    IN  IF q[3] = "=" THEN <<b1>>
        ELSE IF q[4] = "=" THEN <<b1, b2>>
        ELSE <<b1, b2, b3>>

RECURSIVE b64decode(_)
b64decode(s) ==
    IF Len(s) = 0 THEN <<>>
    ELSE B64Ungroup(SubSeq(s, 1, 4)) \o b64decode(SubSeq(s, 5, Len(s)))

\* the payload that carries an object by the base64 marker convention:
\* {"base64": true, "data": b64encode(json.dumps(o).encode()).decode()}
EncodedPayload(o) == PyDict([base64 |-> TRUE, data |-> b64encode(JsonText(o))])

Payloads == {TestData, MarkedData, EncodedPayload(TestData)}

\* json.dumps / jsonify accept the JSON documents and raise TypeError on bytes
JsonSerializable(v) == v.kind # "bytes"

\* traceback.format_exception: the header line, the frames, then "Type: message"
FormatException(e) ==
    <<"Traceback (most recent call last):", e.where, e.type, e.message>>

-----------------------------------------------------------------------------
(* The user handler: an opaque callable (event, context) -> result *)

Handlers ==
    {[fn |-> "echo", ret |-> <<>>],
     [fn |-> "success", ret |-> <<>>],
     [fn |-> "raises", ret |-> <<>>]}
    \cup {[fn |-> "binary", ret |-> b] : b \in BinarySamples}

\* the outcome of handler(event, context)
HandlerCall(h, event) ==
    CASE h.fn = "echo"    -> [kind |-> "return", val |-> event]
      [] h.fn = "success" -> [kind |-> "return", val |-> PyDict([success |-> TRUE])]
      [] h.fn = "binary"  -> [kind |-> "return", val |-> PyBytes(h.ret)]
      [] h.fn = "raises"  ->
            [kind |-> "raise",
             exc |-> [type |-> "ValueError", message |-> "Test error",
                      where |-> "handler"]]

-----------------------------------------------------------------------------
(* Handler loading *)

\* values of the HANDLER variable, split at "."; the default is index.handler
HandlerStrings == {<<"index", "handler">>, <<"handler">>, <<"pkg", "index", "handler">>}

\* the reference bootstrap.py and bootstrap-websocket.py resolve
LambdaFunctionHandler == <<"lambda_function", "handler">>

\* what the working directory holds for the module a reference names: no such
\* file, a module whose body raises, a module without the attribute, one whose
\* attribute is no function, one whose attribute is a function
UserCode == {"missing", "raises", "no_attribute", "not_callable", "callable"}

LoadOk == [ok |-> TRUE, bound |-> "callable"]

LoadError(type, bound) == [ok |-> FALSE, type |-> type, bound |-> bound]

\* a resolution without the callable test
ResolveUnchecked(ref, code) ==
    IF Len(ref) # 2 THEN LoadError("ValueError", "None")
    ELSE IF code = "missing" THEN LoadError("FileNotFoundError", "None")
    ELSE IF code = "raises" THEN LoadError("RuntimeError", "None")
    ELSE IF code = "no_attribute" THEN LoadError("AttributeError", "None")
    ELSE IF code = "not_callable" THEN [ok |-> TRUE, bound |-> "not_callable"]
    ELSE LoadOk

\* the resolution of a handler reference: split, load the module, get the
\* attribute (which is bound before it is tested), test that it is callable
Resolve(ref, code) ==
    IF Len(ref) # 2 THEN LoadError("ValueError", "None")
    ELSE IF code = "missing" THEN LoadError("FileNotFoundError", "None")
    ELSE IF code = "raises" THEN LoadError("RuntimeError", "None")
    ELSE IF code = "no_attribute" THEN LoadError("AttributeError", "None")
    ELSE IF code = "not_callable" THEN LoadError("ValueError", "not_callable")
    ELSE LoadOk

\* the load at the top of bootstrap.py and bootstrap-websocket.py:
\* import lambda_function, bind its handler attribute, test that it is callable
ResolveAtImport(code) ==
    IF code = "missing" THEN LoadError("ModuleNotFoundError", "None")
    ELSE IF code = "raises" THEN LoadError("RuntimeError", "None")
    ELSE IF code = "no_attribute" THEN LoadError("AttributeError", "None")
    ELSE IF code = "not_callable" THEN LoadError("Exception", "not_callable")
    ELSE LoadOk

\* the record of one resolution
Resolution(ref, code) == [ref |-> ref, code |-> code, outcome |-> Resolve(ref, code)]

ResolutionAtImport(code) ==
    [ref |-> LambdaFunctionHandler, code |-> code, outcome |-> ResolveAtImport(code)]

\* the state of a process whose handler was loaded from lambda_function.py
LoadedAtImport == <<ResolutionAtImport("callable")>>

-----------------------------------------------------------------------------
(* Push Transport: RuntimeInterface of runtime.py *)

\* request bodies: a JSON document, or a body request.get_json() rejects
InvalidBody == [kind |-> "invalid"]

Bodies == Payloads \cup {InvalidBody}

Absent == [kind |-> "absent"]

\* the headers of a request: x-deadline-ms is absent, an integer, or text that
\* int() rejects; x-request-id is absent or given
HeaderSamples ==
    {[deadline |-> Absent, rid |-> Absent],
     [deadline |-> [kind |-> "int", val |-> 3000],
      rid |-> [kind |-> "text", val |-> "test-123"]],
     [deadline |-> [kind |-> "int", val |-> 0],
      rid |-> [kind |-> "text", val |-> "test-123"]],
     [deadline |-> [kind |-> "int", val |-> -5], rid |-> Absent],
     [deadline |-> [kind |-> "text", val |-> "soon"], rid |-> Absent]}

\* the requests followed: every header sample with the payload of the tests,
\* every body without headers, and a rejected body with an unparsable deadline
Requests ==
    {[body |-> TestData, deadline |-> h.deadline, rid |-> h.rid] : h \in HeaderSamples}
    \cup {[body |-> b, deadline |-> Absent, rid |-> Absent] : b \in Bodies}
    \cup {[body |-> InvalidBody, deadline |-> [kind |-> "text", val |-> "soon"],
           rid |-> Absent]}

Idle == [kind |-> "idle"]

NothingDone == [kind |-> "nothing"]

\* the envelope every /invoke answer is wrapped in
Envelope(code, body) == [status_code |-> code, body |-> body, logs |-> <<>>]

HttpResponse(status, json) == [http |-> status, json |-> json]

\* the answer of /invoke while shutting down
ShutdownResponse ==
    HttpResponse(503,
        Envelope(503, [errorMessage |-> "Service is shutting down",
                       errorType |-> "ServiceUnavailable"]))

\* an error answer that loses the failure's kind name
ErrorResponseNoKind(e) ==
    HttpResponse(500,
        Envelope(500, [errorMessage |-> e.message,
                       errorType |-> "Exception",
                       stackTrace |-> FormatException(e)]))

\* the error handler of /invoke: the failure becomes a 500 answer
ErrorResponse(e) ==
    HttpResponse(500,
        Envelope(500, [errorMessage |-> e.message,
                       errorType |-> e.type,
                       stackTrace |-> FormatException(e)]))

\* an exception that leaves invoke(): Flask answers with its own 500 page
UnhandledResponse == [http |-> 500, html |-> "Internal Server Error"]

\* an answer that replaces a marked result by the text it carries
SuccessResponseUnwrapping(res) ==
    IF res.kind = "bytes"
    THEN HttpResponse(200,
            Envelope(200, PyDict([base64 |-> TRUE, data |-> b64encode(res.val)])))
    ELSE IF res.kind = "dict" /\ "base64" \in DOMAIN res.val /\ res.val.base64 = TRUE
    THEN HttpResponse(200, Envelope(200, res.val.data))
    ELSE HttpResponse(200, Envelope(200, res))

\* the answer for a result the handler returned
SuccessResponse(res) ==
    IF res.kind = "bytes"
    THEN HttpResponse(200,
            Envelope(200, PyDict([base64 |-> TRUE, data |-> b64encode(res.val)])))
    ELSE IF res.kind = "dict" /\ "base64" \in DOMAIN res.val /\ res.val.base64 = TRUE
    THEN HttpResponse(200, Envelope(200, res))
    ELSE HttpResponse(200, Envelope(200, res))

\* request.headers.get('x-request-id', 'unknown')
RequestIdOf(req) == IF req.rid = Absent THEN "unknown" ELSE req.rid.val

\* a context that hands the deadline on without the elapsed time
ContextOfNoElapsed(req, e) ==
    LET deadline_ms == IF req.deadline = Absent THEN 0 ELSE req.deadline.val
    IN  [deadlineMs |-> IF deadline_ms > 0 THEN deadline_ms ELSE 0,
         requestId |-> RequestIdOf(req)]

\* the context handed to the handler; e is the time elapsed since start_time
ContextOf(req, e) ==
    LET deadline_ms == IF req.deadline = Absent THEN 0 ELSE req.deadline.val
    IN  [deadlineMs |-> IF deadline_ms > 0 THEN deadline_ms - e ELSE 0,
         requestId |-> RequestIdOf(req)]

\* the part of invoke() inside the try: payload, context, handler, answer
InvokeTry(req, h, e) ==
    IF req.body = InvalidBody
    THEN [called |-> FALSE, event |-> None, context |-> None, outcome |-> None,
          response |-> ErrorResponse([type |-> "BadRequest",
                                      message |-> "400 Bad Request",
                                      where |-> "get_json"])]
    ELSE LET outcome == HandlerCall(h, req.body)
         IN  [called |-> TRUE, event |-> req.body, context |-> ContextOf(req, e),
              outcome |-> outcome,
              response |-> IF outcome.kind = "raise"
                           THEN ErrorResponse(outcome.exc)
                           ELSE SuccessResponse(outcome.val)]

\* invoke() after the shutdown check
InvokeBody(req, h, e) ==
    IF req.deadline.kind = "text"
    THEN [called |-> FALSE, event |-> None, context |-> None, outcome |-> None,
          response |-> UnhandledResponse]
    ELSE InvokeTry(req, h, e)

\* the shutdown check of invoke(): TRUE when the request is turned away
ShutdownCheck == is_shutting_down

\* a handle_shutdown that flips the flag on every signal
HandleShutdownToggle ==
    /\ pushPc \in {"created", "serving"}
    /\ is_shutting_down' = ~is_shutting_down
    /\ UNCHANGED <<pushPc, inflight, lastDone, lastHealth, pollVars, streamVars, loadVars>>

\* handle_shutdown(signum, frame)
HandleShutdown ==
    /\ pushPc \in {"created", "serving"}
    /\ is_shutting_down' = TRUE
    /\ UNCHANGED <<pushPc, inflight, lastDone, lastHealth, pollVars, streamVars, loadVars>>

\* start(): init() binds the handler and returns True, and the server starts
PushStart(ref, code) ==
    /\ pushPc = "created"
    /\ Resolve(ref, code).ok
    /\ handler' = Resolve(ref, code).bound
    /\ loadLog' = Append(loadLog, Resolution(ref, code))
    /\ pushPc' = "serving"
    /\ UNCHANGED <<is_shutting_down, inflight, lastDone, lastHealth, exitStatus,
                   pollVars, streamVars>>

\* start(): init() fails and calls sys.exit(1)
PushInitFail(ref, code) ==
    /\ pushPc = "created"
    /\ ~Resolve(ref, code).ok
    /\ handler' = Resolve(ref, code).bound
    /\ loadLog' = Append(loadLog, Resolution(ref, code))
    /\ exitStatus' = <<1>>
    /\ pushPc' = "exited"
    /\ UNCHANGED <<is_shutting_down, inflight, lastDone, lastHealth, pollVars, streamVars>>

\* the request thread a new request is served by: the first free one
FreeSlot(slot) ==
    /\ inflight[slot] = Idle
    /\ \A other \in 1..(slot - 1) : inflight[other] # Idle

\* milliseconds that elapse between start_time and the second reading of the clock
ElapsedSamples == {0, 2}

\* the context reads the clock only when a deadline was given
ElapsedChoices(req) ==
    IF req.deadline.kind = "int" /\ req.deadline.val > 0 THEN ElapsedSamples ELSE {0}

\* POST /invoke arrives: the shutdown check
InvokeCheck(slot, req) ==
    /\ pushPc = "serving"
    /\ FreeSlot(slot)
    /\ IF ShutdownCheck
       THEN /\ lastDone' = [kind |-> "done", req |-> req, flagAtCheck |-> TRUE,
                            elapsed |-> 0, called |-> FALSE, event |-> None, context |-> None,
                            outcome |-> None, response |-> ShutdownResponse]
            /\ UNCHANGED inflight
       ELSE /\ inflight' = [inflight EXCEPT ![slot] = [kind |-> "checked", req |-> req]]
            /\ UNCHANGED lastDone
    /\ UNCHANGED <<pushPc, is_shutting_down, lastHealth, pollVars, streamVars, loadVars>>

\* POST /invoke past the shutdown check: run to the answer
InvokeRun(slot, h, e) ==
    /\ pushPc = "serving"
    /\ inflight[slot] # Idle
    /\ e \in ElapsedChoices(inflight[slot].req)
    /\ LET req == inflight[slot].req
           out == InvokeBody(req, h, e)
       IN  lastDone' = [kind |-> "done", req |-> req, flagAtCheck |-> FALSE,
                        elapsed |-> e, called |-> out.called, event |-> out.event,
                        context |-> out.context, outcome |-> out.outcome,
                        response |-> out.response]
    /\ inflight' = [inflight EXCEPT ![slot] = Idle]
    /\ UNCHANGED <<pushPc, is_shutting_down, lastHealth, pollVars, streamVars, loadVars>>

\* the answer of /health
HealthResponse == HttpResponse(200, [status |-> "ok"])

\* a health route that reports the shutdown
HealthRefusingOnShutdown ==
    /\ pushPc \in {"created", "serving"}
    /\ lastHealth' = [kind |-> "done",
                      flag |-> is_shutting_down,
                      loaded |-> (pushPc = "serving"),
                      busy |-> (\E s \in 1..MaxInFlight : inflight[s] # Idle),
                      response |-> IF is_shutting_down
                                   THEN HttpResponse(503, [status |-> "shutting down"])
                                   ELSE HealthResponse]
    /\ UNCHANGED <<pushPc, is_shutting_down, inflight, lastDone, pollVars, streamVars, loadVars>>

\* GET /health: the route exists once the RuntimeInterface is constructed
Health ==
    /\ pushPc \in {"created", "serving"}
    /\ lastHealth' = [kind |-> "done",
                      flag |-> is_shutting_down,
                      loaded |-> (pushPc = "serving"),
                      busy |-> (\E s \in 1..MaxInFlight : inflight[s] # Idle),
                      response |-> HealthResponse]
    /\ UNCHANGED <<pushPc, is_shutting_down, inflight, lastDone, pollVars, streamVars, loadVars>>

PushNext ==
    \/ HandleShutdown
    \/ Health
    \/ \E ref \in HandlerStrings, code \in UserCode : PushStart(ref, code)
    \/ \E ref \in HandlerStrings, code \in UserCode : PushInitFail(ref, code)
    \/ \E slot \in 1..MaxInFlight, req \in Requests : InvokeCheck(slot, req)
    \/ \E slot \in 1..MaxInFlight, h \in Handlers, e \in ElapsedSamples :
          InvokeRun(slot, h, e)

-----------------------------------------------------------------------------
(* Poll Transport: bootstrap.py *)

\* request ids the Runtime API hands out (lambda-runtime-aws-request-id)
PollRequestIds == {"req-1", "req-2"}

\* what can go wrong in get_next_invocation: the request or json.loads of the body
FetchFailureKinds == {"network", "malformed"}

\* a retry delay that grows with the consecutive failures
PollRetryDelayBackoff(failures) == failures

\* the argument of time.sleep after a failed fetch; failures is the number of
\* consecutive failures so far
PollRetryDelay(failures) == 1

\* get_next_invocation() returns an invocation
FetchOk(rid, payload) ==
    /\ pollPc = "fetch"
    /\ invocation' = [requestId |-> rid, payload |-> payload]
    /\ result' = None
    /\ posts' = <<>>
    /\ pollCalls' = 0
    /\ pollError' = None
    /\ fetchFailures' = 0
    /\ pollPc' = "handler"
    /\ UNCHANGED <<pollWait, pushVars, loadVars, streamVars>>

\* where main() goes when get_next_invocation() raises: the outer handler
AfterFetchFailure == "sleep"

\* get_next_invocation() raises: the outer handler of main() logs and sleeps
FetchFail(why) ==
    /\ pollPc = "fetch"
    /\ fetchFailures < MaxFetchFailures
    /\ fetchFailures' = fetchFailures + 1
    /\ pollError' = [type |-> "Exception", message |-> "Failed to get next invocation",
                     where |-> why]
    /\ pollPc' = AfterFetchFailure
    /\ pollWait' = PollRetryDelay(fetchFailures + 1)
    /\ UNCHANGED <<invocation, result, posts, pollCalls, pushVars, loadVars, streamVars>>

\* time.sleep(1) returns and the loop starts over
PollSleep ==
    /\ pollPc = "sleep"
    /\ pollWait' = 0
    /\ pollPc' = "fetch"
    /\ UNCHANGED <<invocation, result, posts, pollCalls, pollError, fetchFailures, pushVars, loadVars, streamVars>>

\* result = handler(invocation['payload'], context)
PollHandler(h) ==
    /\ pollPc = "handler"
    /\ LET outcome == HandlerCall(h, invocation.payload)
       IN  /\ result' = outcome
           /\ pollCalls' = pollCalls + 1
           /\ IF outcome.kind = "raise"
              THEN pollError' = outcome.exc /\ pollPc' = "post_error"
              ELSE pollError' = None /\ pollPc' = "post_response"
    /\ UNCHANGED <<invocation, posts, fetchFailures, pollWait, pushVars, loadVars, streamVars>>

PostFailed ==
    [type |-> "Exception", message |-> "Failed to post response", where |-> "post_response"]

\* a loop that posts the response again when the POST failed
AfterPostFailureRetry == "post_response"

\* where main() goes when post_response() raises: the inner handler posts an error
AfterPostFailure == "post_error"

\* post_response(requestId, result): json.dumps, then the POST; delivered tells
\* whether the Runtime API received it
PostResponse(delivered) ==
    /\ pollPc = "post_response"
    /\ IF ~JsonSerializable(result.val)
       THEN /\ posts' = posts
            /\ pollError' = PostFailed
            /\ pollPc' = AfterPostFailure
       ELSE /\ posts' = Append(posts, [endpoint |-> "response",
                                       requestId |-> invocation.requestId,
                                       body |-> result.val,
                                       delivered |-> delivered])
            /\ IF delivered
               THEN pollError' = None /\ pollPc' = "fetch"
               ELSE pollError' = PostFailed /\ pollPc' = AfterPostFailure
    /\ UNCHANGED <<invocation, result, pollCalls, fetchFailures, pollWait, pushVars, loadVars, streamVars>>

\* post_error(requestId, error): a failure of the POST is printed and dropped
PostError(delivered) ==
    /\ pollPc = "post_error"
    /\ posts' = Append(posts, [endpoint |-> "error",
                               requestId |-> invocation.requestId,
                               body |-> [errorType |-> pollError.type,
                                         errorMessage |-> pollError.message,
                                         stackTrace |-> FormatException(pollError)],
                               delivered |-> delivered])
    /\ pollPc' = "fetch"
    /\ UNCHANGED <<invocation, result, pollCalls, pollError, fetchFailures, pollWait, pushVars, loadVars, streamVars>>

\* the top of bootstrap.py: the handler is loaded, then main() starts the loop;
\* a failure ends the process with sys.exit(1)
PollLoad(code) ==
    /\ pollPc = "start"
    /\ handler' = ResolveAtImport(code).bound
    /\ loadLog' = Append(loadLog, ResolutionAtImport(code))
    /\ IF ResolveAtImport(code).ok
       THEN pollPc' = "fetch" /\ exitStatus' = exitStatus
       ELSE pollPc' = "exited" /\ exitStatus' = <<1>>
    /\ UNCHANGED <<invocation, result, posts, pollCalls, pollError, fetchFailures,
                   pollWait, pushVars, streamVars>>

PollNext ==
    \/ \E rid \in PollRequestIds, payload \in Payloads : FetchOk(rid, payload)
    \/ \E why \in FetchFailureKinds : FetchFail(why)
    \/ PollSleep
    \/ \E h \in Handlers : PollHandler(h)
    \/ \E delivered \in BOOLEAN : PostResponse(delivered)
    \/ \E delivered \in BOOLEAN : PostError(delivered)

-----------------------------------------------------------------------------
(* Stream Transport: WebSocketRuntime of bootstrap-websocket.py *)

FUNCTION_NAME == "fn"

FUNCTION_VERSION == "1"

INSTANCE_ID == "instance-1"

max_reconnect_attempts == 10

\* the first value of self.reconnect_delay
InitialReconnectDelay == 1

\* the cap of the backoff, min(..., 30.0)
MaxReconnectDelay == 30

\* request ids of inbound invocation messages
StreamRequestIds == {"req-1", "req-2"}

\* a frame json.loads rejects
GarbageFrame == [kind |-> "garbage"]

\* a frame that is JSON but no object, such as "[]": message.get raises
NonObjectFrame == [kind |-> "nonobject"]

InvocationFrames ==
    {[kind |-> "message", type |-> "invocation", request_id |-> r, payload |-> p] :
        r \in StreamRequestIds, p \in Payloads}

InboundFrames ==
    {GarbageFrame, NonObjectFrame,
     [kind |-> "message", type |-> "ping"],
     [kind |-> "message", type |-> "error_response"],
     [kind |-> "message", type |-> "hello"]}
    \cup InvocationFrames

\* the message register() builds
RegisterMessage ==
    [type |-> "register", function_name |-> FUNCTION_NAME, runtime |-> "python311",
     version |-> FUNCTION_VERSION, instance_id |-> INSTANCE_ID]

\* the message handle_invocation builds for a result
ResponseMessage(request_id, res) ==
    [type |-> "response", request_id |-> request_id, payload |-> res,
     headers |-> [XAmzExecutedVersion |-> FUNCTION_VERSION]]

\* the message handle_invocation builds for an exception
ErrorMessage(request_id, e) ==
    [type |-> "error", request_id |-> request_id, error_message |-> e.message,
     error_type |-> e.type, stack_trace |-> FormatException(e),
     headers |-> [XAmzFunctionError |-> "Unhandled"]]

\* json.dumps(message) succeeds
MessageSerializable(m) ==
    ~(m.type = "response" /\ ~JsonSerializable(m.payload))

\* send(message) with self.websocket = ws and self.is_connected = connected:
\* what reaches the socket. A failure of json.dumps or of websocket.send is
\* printed and dropped.
send(ws, connected, m) ==
    IF ws # "None" /\ connected
    THEN IF MessageSerializable(m) /\ ws = "open" THEN <<m>> ELSE <<>>
    ELSE <<>>

\* fallback_to_http(): "import bootstrap" runs the module body of bootstrap.py;
\* its main() is under "if __name__ == '__main__'" and is not called
fallback_to_http ==
    /\ fallbackCalls' = fallbackCalls + 1
    /\ UNCHANGED pollVars

\* a test of handle_reconnect that allows one attempt more
ShouldRetryInclusive ==
    reconnect_attempts <= max_reconnect_attempts /\ ~should_stop

\* the test of handle_reconnect
ShouldRetry ==
    reconnect_attempts < max_reconnect_attempts /\ ~should_stop

\* handle_reconnect() up to its first await, or through fallback_to_http()
handle_reconnect ==
    IF ShouldRetry
    THEN /\ reconnect_attempts' = reconnect_attempts + 1
         /\ wsPc' = "sleep"
         /\ UNCHANGED <<fallbackCalls, pollVars>>
    ELSE /\ fallback_to_http
         /\ wsPc' = "unwind"
         /\ UNCHANGED reconnect_attempts

Min(a, b) == IF a <= b THEN a ELSE b

\* a backoff without the cap
BackoffUncapped(delay) == delay * 2

\* the delay after "self.reconnect_delay = min(self.reconnect_delay * 2, 30.0)"
Backoff(delay) == Min(delay * 2, MaxReconnectDelay)

\* a connect() that enters the message loop without calling register()
ConnectOkUnregistered ==
    /\ wsPc = "connect"
    /\ connections < MaxConnections
    /\ websocket' = "open"
    /\ is_connected' = TRUE
    /\ reconnect_attempts' = 0
    /\ cur' = None
    /\ curCalls' = <<>>
    /\ curSent' = <<>>
    /\ registered' = 0
    /\ connectCalls' = connectCalls + 1
    /\ connections' = connections + 1
    /\ wsPc' = "recv"
    /\ UNCHANGED <<depth, reconnect_delay, should_stop, shutdownPc, waits,
                   fallbackCalls, pushVars, loadVars, pollVars>>

\* the Runtime API accepts the connection: connect() through register()
ConnectOk ==
    /\ wsPc = "connect"
    /\ connections < MaxConnections
    /\ websocket' = "open"
    /\ is_connected' = TRUE
    /\ reconnect_attempts' = 0
    /\ cur' = None
    /\ curCalls' = <<>>
    /\ curSent' = send("open", TRUE, RegisterMessage)
    /\ registered' = Len(send("open", TRUE, RegisterMessage))
    /\ connectCalls' = connectCalls + 1
    /\ connections' = connections + 1
    /\ wsPc' = "recv"
    /\ UNCHANGED <<depth, reconnect_delay, should_stop, shutdownPc, waits,
                   fallbackCalls, pushVars, loadVars, pollVars>>

\* websockets.connect raises: the handler of connect() calls handle_reconnect()
ConnectFail ==
    /\ wsPc = "connect"
    /\ is_connected' = FALSE
    /\ connectCalls' = connectCalls + 1
    /\ handle_reconnect
    /\ UNCHANGED <<depth, websocket, reconnect_delay, should_stop, shutdownPc,
                   cur, curCalls, curSent, registered, waits, connections, pushVars, loadVars>>

\* "await asyncio.sleep(self.reconnect_delay)" returns and connect() is called
SleepDone ==
    /\ wsPc = "sleep"
    /\ waits' = Append(waits, reconnect_delay)
    /\ depth' = depth + 1
    /\ wsPc' = "connect"
    /\ UNCHANGED <<websocket, reconnect_attempts, reconnect_delay, is_connected,
                   should_stop, shutdownPc, cur, curCalls, curSent, registered,
                   connectCalls, connections, fallbackCalls, pushVars, loadVars, pollVars>>

\* a message loop whose frame errors reach the handlers of the loop itself
ReceiveStrict(f) ==
    /\ wsPc = "recv"
    /\ websocket \in {"open", "closing"}
    /\ cur' = f
    /\ curCalls' = <<>>
    /\ IF f.kind # "message"
       THEN /\ curSent' = <<>>
            /\ websocket' = "closed"
            /\ is_connected' = FALSE
            /\ handle_reconnect
       ELSE /\ IF f.type = "invocation"
               THEN wsPc' = "handler" /\ curSent' = <<>>
               ELSE IF f.type = "ping"
               THEN wsPc' = "recv"
                    /\ curSent' = send(websocket, is_connected, [type |-> "pong"])
               ELSE wsPc' = "recv" /\ curSent' = <<>>
            /\ UNCHANGED <<websocket, reconnect_attempts, is_connected, fallbackCalls,
                           pollVars>>
    /\ UNCHANGED <<depth, reconnect_delay, should_stop, shutdownPc, registered, waits,
                   connectCalls, connections, pushVars, loadVars>>

\* a handle_message without the branch for 'ping'
ReceiveSilentPing(f) ==
    /\ wsPc = "recv"
    /\ websocket \in {"open", "closing"}
    /\ cur' = f
    /\ curCalls' = <<>>
    /\ IF f.kind = "message" /\ f.type = "invocation"
       THEN wsPc' = "handler" /\ curSent' = <<>>
       ELSE wsPc' = "recv" /\ curSent' = <<>>
    /\ UNCHANGED <<depth, websocket, reconnect_attempts, reconnect_delay, is_connected,
                   should_stop, shutdownPc, registered, waits, connectCalls,
                   connections, fallbackCalls, pushVars, loadVars, pollVars>>

\* message_loop takes the next frame: json.loads and handle_message
Receive(f) ==
    /\ wsPc = "recv"
    /\ websocket \in {"open", "closing"}
    /\ cur' = f
    /\ curCalls' = <<>>
    /\ IF f.kind = "message" /\ f.type = "invocation"
       THEN wsPc' = "handler" /\ curSent' = <<>>
       ELSE IF f.kind = "message" /\ f.type = "ping"
       THEN wsPc' = "recv" /\ curSent' = send(websocket, is_connected, [type |-> "pong"])
       ELSE wsPc' = "recv" /\ curSent' = <<>>
    /\ UNCHANGED <<depth, websocket, reconnect_attempts, reconnect_delay, is_connected,
                   should_stop, shutdownPc, registered, waits, connectCalls,
                   connections, fallbackCalls, pushVars, loadVars, pollVars>>

\* handle_invocation: the handler runs and its outcome is sent
handle_invocation(h) ==
    /\ wsPc = "handler"
    /\ LET outcome == HandlerCall(h, cur.payload)
           message == IF outcome.kind = "raise"
                      THEN ErrorMessage(cur.request_id, outcome.exc)
                      ELSE ResponseMessage(cur.request_id, outcome.val)
       IN  /\ curCalls' = Append(curCalls, [event |-> cur.payload, outcome |-> outcome])
           /\ curSent' = curSent \o send(websocket, is_connected, message)
    /\ wsPc' = "recv"
    /\ UNCHANGED <<depth, websocket, reconnect_attempts, reconnect_delay, is_connected,
                   should_stop, shutdownPc, cur, registered, waits, connectCalls,
                   connections, fallbackCalls, pushVars, loadVars, pollVars>>

\* the connection closes normally: "async for" ends, message_loop and connect return
ClosedOK ==
    /\ wsPc = "recv"
    /\ websocket \in {"open", "closing"}
    /\ websocket' = "closed"
    /\ wsPc' = "unwind"
    /\ UNCHANGED <<depth, reconnect_attempts, reconnect_delay, is_connected, should_stop,
                   shutdownPc, cur, curCalls, curSent, registered, waits, connectCalls,
                   connections, fallbackCalls, pushVars, loadVars, pollVars>>

\* "async for" raises ConnectionClosed
ClosedError ==
    /\ wsPc = "recv"
    /\ websocket \in {"open", "closing"}
    /\ websocket' = "closed"
    /\ is_connected' = FALSE
    /\ handle_reconnect
    /\ UNCHANGED <<depth, reconnect_delay, should_stop, shutdownPc, cur, curCalls,
                   curSent, registered, waits, connectCalls, connections, pushVars, loadVars>>

\* "async for" raises another exception
LoopError ==
    /\ wsPc = "recv"
    /\ websocket \in {"open", "closing"}
    /\ websocket' = "closed"
    /\ is_connected' = FALSE
    /\ handle_reconnect
    /\ UNCHANGED <<depth, reconnect_delay, should_stop, shutdownPc, cur, curCalls,
                   curSent, registered, waits, connectCalls, connections, pushVars, loadVars>>

\* connect() returned to a handle_reconnect(): the backoff statement, then return
Unwind ==
    /\ wsPc = "unwind"
    /\ depth > 0
    /\ reconnect_delay' = Backoff(reconnect_delay)
    /\ depth' = depth - 1
    /\ UNCHANGED <<wsPc, websocket, reconnect_attempts, is_connected, should_stop,
                   shutdownPc, wsLog, pushVars, loadVars, pollVars>>

\* connect() returned to main(): asyncio.run ends
MainReturn ==
    /\ wsPc = "unwind"
    /\ depth = 0
    /\ wsPc' = "done"
    /\ UNCHANGED <<depth, websocket, reconnect_attempts, reconnect_delay, is_connected,
                   should_stop, shutdownPc, wsLog, pushVars, loadVars, pollVars>>

\* SIGTERM or SIGINT: signal_handler creates the task runtime.shutdown()
signal_handler ==
    /\ wsPc \notin {"done", "none", "start", "exited"}
    /\ shutdownPc = "idle"
    /\ shutdownPc' = "scheduled"
    /\ UNCHANGED <<wsPc, depth, websocket, reconnect_attempts, reconnect_delay,
                   is_connected, should_stop, wsLog, pushVars, loadVars, pollVars>>

\* a scheduler that can also run another task during the handler call
SuspensionPointsPreemptive == {"connect", "recv", "sleep", "handler"}

\* where the main task is suspended and another task can run
SuspensionPoints == {"connect", "recv", "sleep"}

\* the task runs shutdown(): the flag, then websocket.close()
shutdown ==
    /\ shutdownPc = "scheduled"
    /\ wsPc \in SuspensionPoints
    /\ should_stop' = TRUE
    /\ websocket' = IF websocket = "open" THEN "closing" ELSE websocket
    /\ shutdownPc' = "done"
    /\ UNCHANGED <<wsPc, depth, reconnect_attempts, reconnect_delay, is_connected,
                   wsLog, pushVars, loadVars, pollVars>>

\* the top of bootstrap-websocket.py: the handler is loaded, then main() makes
\* the WebSocketRuntime and calls connect(); a failure ends the process with
\* sys.exit(1)
StreamLoad(code) ==
    /\ wsPc = "start"
    /\ handler' = ResolveAtImport(code).bound
    /\ loadLog' = Append(loadLog, ResolutionAtImport(code))
    /\ IF ResolveAtImport(code).ok
       THEN wsPc' = "connect" /\ exitStatus' = exitStatus
       ELSE wsPc' = "exited" /\ exitStatus' = <<1>>
    /\ UNCHANGED <<depth, websocket, reconnect_attempts, reconnect_delay, is_connected,
                   should_stop, shutdownPc, wsLog, pushVars, pollVars>>

StreamNext ==
    \/ ConnectOk
    \/ ConnectFail
    \/ SleepDone
    \/ \E f \in InboundFrames : Receive(f)
    \/ \E h \in Handlers : handle_invocation(h)
    \/ ClosedOK
    \/ ClosedError
    \/ LoopError
    \/ Unwind
    \/ MainReturn
    \/ signal_handler
    \/ shutdown

-----------------------------------------------------------------------------
(* Specifications: one per transport, the other transports not running *)

PushInit ==
    /\ pushPc = "created"
    /\ is_shutting_down = FALSE
    /\ inflight = [s \in 1..MaxInFlight |-> Idle]
    /\ lastDone = NothingDone
    /\ lastHealth = NothingDone
    /\ pollPc = "none"
    /\ invocation = None
    /\ result = None
    /\ posts = <<>>
    /\ pollCalls = 0
    /\ pollError = None
    /\ fetchFailures = 0
    /\ pollWait = 0
    /\ wsPc = "none"
    /\ depth = 0
    /\ websocket = "None"
    /\ reconnect_attempts = 0
    /\ reconnect_delay = InitialReconnectDelay
    /\ is_connected = FALSE
    /\ should_stop = FALSE
    /\ shutdownPc = "idle"
    /\ cur = None
    /\ curCalls = <<>>
    /\ curSent = <<>>
    /\ registered = 0
    /\ waits = <<>>
    /\ connectCalls = 0
    /\ connections = 0
    /\ fallbackCalls = 0
    /\ handler = "None"
    /\ loadLog = <<>>
    /\ exitStatus = <<>>

PollInit ==
    /\ pushPc = "none"
    /\ is_shutting_down = FALSE
    /\ inflight = [s \in 1..MaxInFlight |-> Idle]
    /\ lastDone = NothingDone
    /\ lastHealth = NothingDone
    /\ pollPc = "fetch"
    /\ invocation = None
    /\ result = None
    /\ posts = <<>>
    /\ pollCalls = 0
    /\ pollError = None
    /\ fetchFailures = 0
    /\ pollWait = 0
    /\ wsPc = "none"
    /\ depth = 0
    /\ websocket = "None"
    /\ reconnect_attempts = 0
    /\ reconnect_delay = InitialReconnectDelay
    /\ is_connected = FALSE
    /\ should_stop = FALSE
    /\ shutdownPc = "idle"
    /\ cur = None
    /\ curCalls = <<>>
    /\ curSent = <<>>
    /\ registered = 0
    /\ waits = <<>>
    /\ connectCalls = 0
    /\ connections = 0
    /\ fallbackCalls = 0
    /\ handler = "callable"
    /\ loadLog = LoadedAtImport
    /\ exitStatus = <<>>

StreamInit ==
    /\ pushPc = "none"
    /\ is_shutting_down = FALSE
    /\ inflight = [s \in 1..MaxInFlight |-> Idle]
    /\ lastDone = NothingDone
    /\ lastHealth = NothingDone
    /\ pollPc = "none"
    /\ invocation = None
    /\ result = None
    /\ posts = <<>>
    /\ pollCalls = 0
    /\ pollError = None
    /\ fetchFailures = 0
    /\ pollWait = 0
    /\ wsPc = "connect"
    /\ depth = 0
    /\ websocket = "None"
    /\ reconnect_attempts = 0
    /\ reconnect_delay = InitialReconnectDelay
    /\ is_connected = FALSE
    /\ should_stop = FALSE
    /\ shutdownPc = "idle"
    /\ cur = None
    /\ curCalls = <<>>
    /\ curSent = <<>>
    /\ registered = 0
    /\ waits = <<>>
    /\ connectCalls = 0
    /\ connections = 0
    /\ fallbackCalls = 0
    /\ handler = "callable"
    /\ loadLog = LoadedAtImport
    /\ exitStatus = <<>>

\* a process of any of the three transports, from its first statement
ProcessInit ==
    /\ pushPc \in {"created", "none"}
    /\ pollPc \in {"start", "none"}
    /\ wsPc \in {"start", "none"}
    /\ Cardinality({i \in 1..3 : <<pushPc, pollPc, wsPc>>[i] # "none"}) = 1
    /\ is_shutting_down = FALSE
    /\ inflight = [s \in 1..MaxInFlight |-> Idle]
    /\ lastDone = NothingDone
    /\ lastHealth = NothingDone
    /\ invocation = None
    /\ result = None
    /\ posts = <<>>
    /\ pollCalls = 0
    /\ pollError = None
    /\ fetchFailures = 0
    /\ pollWait = 0
    /\ depth = 0
    /\ websocket = "None"
    /\ reconnect_attempts = 0
    /\ reconnect_delay = InitialReconnectDelay
    /\ is_connected = FALSE
    /\ should_stop = FALSE
    /\ shutdownPc = "idle"
    /\ cur = None
    /\ curCalls = <<>>
    /\ curSent = <<>>
    /\ registered = 0
    /\ waits = <<>>
    /\ connectCalls = 0
    /\ connections = 0
    /\ fallbackCalls = 0
    /\ handler = "None"
    /\ loadLog = <<>>
    /\ exitStatus = <<>>

ProcessNext ==
    \/ PushNext
    \/ \E code \in UserCode : PollLoad(code)
    \/ PollNext
    \/ \E code \in UserCode : StreamLoad(code)
    \/ StreamNext

PushSpec == PushInit /\ [][PushNext]_vars

PollSpec == PollInit /\ [][PollNext]_vars

StreamSpec == StreamInit /\ [][StreamNext]_vars

ProcessSpec == ProcessInit /\ [][ProcessNext]_vars

-----------------------------------------------------------------------------
(* Claims *)

\* a request passes the shutdown check in this step
PassesCheck == \E s \in DOMAIN inflight : inflight[s] = Idle /\ inflight'[s] # Idle

\* a request is turned away at the shutdown check in this step
TurnedAway == lastDone' # lastDone /\ inflight' = inflight

StatedBackoff == <<1, 2, 4, 8, 16, 30, 30, 30, 30, 30>>

\* C2: while no connection attempt has succeeded, the wait before the i-th
\* reconnect attempt is the i-th of 1, 2, 4, 8, 16, 30, 30, ... seconds.
C2_BackoffSequence ==
    connections = 0 =>
        \A i \in 1..Len(waits) : i <= Len(StatedBackoff) => waits[i] = StatedBackoff[i]

\* every connection attempt so far failed and no shutdown was requested
OnlyFailures == connections = 0 /\ ~should_stop

\* C3: when every connection attempt fails and no shutdown is requested,
\* fallback_to_http is called after exactly 10 reconnect attempts
\* (reconnect_attempts = max_reconnect_attempts = 10, the 11th failed call of
\* websockets.connect), the run of failures cannot end any other way,
\* fallback_to_http is called at most once, and after it was called no
\* connection attempt and no backoff wait is started again.
C3_FallbackAfterTen ==
    /\ [](/\ fallbackCalls <= 1
          /\ (OnlyFailures /\ fallbackCalls = 1 =>
                /\ reconnect_attempts = max_reconnect_attempts
                /\ reconnect_attempts = 10
                /\ Len(waits) = 10
                /\ connectCalls = 11)
          /\ (OnlyFailures /\ wsPc \in {"unwind", "done"} => fallbackCalls = 1)
          /\ (fallbackCalls >= 1 => wsPc \in {"unwind", "done"}))
    /\ [][fallbackCalls >= 1 =>
            /\ connectCalls' = connectCalls
            /\ waits' = waits
            /\ fallbackCalls' = fallbackCalls]_vars

\* C3 witness: ten reconnect attempts failed, nothing was ever connected, no
\* shutdown was requested, and fallback_to_http has been called
C3_Witness ==
    /\ OnlyFailures
    /\ shutdownPc = "idle"
    /\ fallbackCalls = 1
    /\ reconnect_attempts = 10
    /\ connectCalls = 11

\* C4: once fallback_to_http has been called (here: with no shutdown requested)
\* the poll loop of bootstrap.py is running (it fetches, dispatches, posts or
\* sleeps) for the rest of the process.
C4_FallbackStartsPollLoop ==
    fallbackCalls >= 1 /\ shutdownPc = "idle" =>
        pollPc \in {"fetch", "handler", "post_response", "post_error", "sleep"}

\* the request that completed last passed the shutdown check and its headers
\* were read, so that the payload was obtained and the handler possibly called
ReachedTry ==
    /\ lastDone.kind = "done"
    /\ ~lastDone.flagAtCheck
    /\ lastDone.req.deadline.kind # "text"

Base64Tagged(v) ==
    /\ v.kind = "dict"
    /\ DOMAIN v.val = {"base64", "data"}
    /\ v.val.base64 = TRUE

\* the handler of the current invocation returned bytes
PollReturnedBytes == result.kind = "return" /\ result.val.kind = "bytes"

\* C6: on every transport a binary handler result reaches the caller as a
\* success tagged {base64: true, data: ...} whose data decodes to the bytes:
\* Push answers 200 with that body, Poll posts it to the response endpoint and
\* never posts an error for the invocation, Stream emits it in a 'response'.
C6_BinaryTaggedEverywhere ==
    /\ (lastDone.kind = "done" /\ lastDone.called
          /\ lastDone.outcome.kind = "return" /\ lastDone.outcome.val.kind = "bytes" =>
            /\ lastDone.response.http = 200
            /\ Base64Tagged(lastDone.response.json.body)
            /\ b64decode(lastDone.response.json.body.val.data) = lastDone.outcome.val.val)
    /\ (PollReturnedBytes =>
            /\ \A i \in 1..Len(posts) :
                  /\ posts[i].endpoint = "response"
                  /\ Base64Tagged(posts[i].body)
                  /\ b64decode(posts[i].body.val.data) = result.val.val
            /\ (pollPc \in {"fetch", "sleep"} => Len(posts) = 1))
    /\ (wsPc = "recv" /\ websocket = "open" /\ Len(curCalls) = 1
          /\ curCalls[1].outcome.kind = "return"
          /\ curCalls[1].outcome.val.kind = "bytes" =>
            /\ Len(curSent) = 1
            /\ curSent[1].type = "response"
            /\ Base64Tagged(curSent[1].payload)
            /\ b64decode(curSent[1].payload.val.data) = curCalls[1].outcome.val.val)

\* C7 (for results json.dumps accepts): the handler is called once per fetched
\* invocation, at most one POST is attempted for it, and the endpoint follows
\* the handler's outcome alone: the response endpoint when it returned (also
\* when that POST fails), the error endpoint when it raised.
C7_OutcomeSelectsEndpoint ==
    /\ pollCalls <= 1
    /\ (pollPc \in {"post_response", "post_error"} => pollCalls = 1)
    /\ (result.kind = "return" /\ JsonSerializable(result.val) =>
            /\ Len(posts) <= 1
            /\ \A i \in 1..Len(posts) : posts[i].endpoint = "response")
    /\ (result.kind = "raise" =>
            /\ Len(posts) <= 1
            /\ \A i \in 1..Len(posts) : posts[i].endpoint = "error")

\* the frame handled last was an invocation, its handling is over and the
\* socket was open throughout
InvocationHandled ==
    /\ wsPc = "recv"
    /\ websocket = "open"
    /\ cur.kind = "message"
    /\ cur.type = "invocation"

\* C8: for an inbound 'invocation' handled on an open connection the handler
\* is called exactly once with the message's payload and exactly one message
\* with the same request_id is emitted: a 'response' when the handler returned,
\* an 'error' (with X-Amz-Function-Error: Unhandled) when it raised.
C8_OneReplyPerInvocation ==
    InvocationHandled =>
        /\ Len(curCalls) = 1
        /\ curCalls[1].event = cur.payload
        /\ Len(curSent) = 1
        /\ curSent[1].request_id = cur.request_id
        /\ (curCalls[1].outcome.kind = "return" => curSent[1].type = "response")
        /\ (curCalls[1].outcome.kind = "raise" =>
                /\ curSent[1].type = "error"
                /\ curSent[1].headers.XAmzFunctionError = "Unhandled")

\* C9: fallback_to_http is never called while should_stop is true, and the
\* poll loop is not running in a state where should_stop is true.
C9_NoFallbackOnShutdown ==
    /\ [](should_stop => pollPc = "none")
    /\ [][fallbackCalls' # fallbackCalls => ~should_stop]_vars

\* C10: a failed fetch never ends the loop: the loop sleeps 1 second, whatever
\* the number of consecutive failures, and fetches again; the failed fetch
\* causes no handler call and no POST.
C10_FetchFailureRetries ==
    /\ [](/\ pollPc \in {"fetch", "handler", "post_response", "post_error", "sleep"}
          /\ (pollPc = "sleep" => pollWait = 1 /\ fetchFailures >= 1)
          /\ (pollPc # "sleep" => pollWait = 0))
    /\ [][/\ (pollPc = "sleep" => pollPc' = "fetch")
          /\ (fetchFailures' > fetchFailures =>
                /\ pollPc' = "sleep"
                /\ pollWait' = 1
                /\ pollCalls' = pollCalls
                /\ posts' = posts)
          /\ (pollPc = "fetch" /\ pollPc' # "handler" => fetchFailures' = fetchFailures + 1)
         ]_vars

\* C10 witness: the loop sleeps after its third consecutive failed fetch
C10_Witness ==
    /\ pollPc = "sleep"
    /\ fetchFailures = 3
    /\ pollWait = 1

\* the request that completed last passed the shutdown check and was served by
\* a handler that returned its event unchanged
EchoReturned ==
    /\ ReachedTry
    /\ lastDone.called
    /\ lastDone.event = lastDone.req.body
    /\ lastDone.outcome.kind = "return"
    /\ lastDone.outcome.val = lastDone.event

C12_Base64RoundTrip ==
    \A o \in JsonObjects :
        EchoReturned /\ lastDone.req.body = EncodedPayload(o) =>
            /\ lastDone.response.http = 200
            /\ lastDone.response.json.body = o

\* C13: the remaining time in the handler's context is D - E when the
\* x-deadline-ms value D is greater than 0 (E: the whole milliseconds elapsed
\* since the request's handling started) and 0 when the header is absent or
\* D <= 0; the context's request id is the x-request-id header, or "unknown"
\* when the header is absent.
C13_RemainingTime ==
    ReachedTry /\ lastDone.called =>
        LET req == lastDone.req
            ctx == lastDone.context
        IN  /\ (req.deadline = Absent => ctx.deadlineMs = 0)
            /\ (req.deadline # Absent /\ req.deadline.val <= 0 => ctx.deadlineMs = 0)
            /\ (req.deadline # Absent /\ req.deadline.val > 0 =>
                    ctx.deadlineMs = req.deadline.val - lastDone.elapsed)
            /\ (req.rid = Absent => ctx.requestId = "unknown")
            /\ (req.rid # Absent => ctx.requestId = req.rid.val)

\* C13 witness: a handler was called 2 ms into a request with deadline 3000
\* and request id test-123
C13_Witness ==
    /\ ReachedTry
    /\ lastDone.called
    /\ lastDone.req.deadline # Absent
    /\ lastDone.req.deadline.val = 3000
    /\ lastDone.elapsed = 2
    /\ lastDone.context.deadlineMs = 2998
    /\ lastDone.context.requestId = "test-123"

\* C14: GET /health answers {status: "ok"} in every reachable state of the
\* running process (before and after the shutdown flag is set, with or without
\* a loaded handler, with /invoke requests in flight), and answering it calls no
\* handler and leaves the shutdown flag and the /invoke requests alone.
C14_HealthAlwaysOk ==
    /\ [](/\ (pushPc \in {"created", "serving"} => ENABLED Health)
          /\ (lastHealth # NothingDone =>
                /\ lastHealth.response.http = 200
                /\ lastHealth.response.json = [status |-> "ok"]))
    /\ [][lastHealth' # lastHealth =>
            UNCHANGED <<pushPc, is_shutting_down, inflight, lastDone>>]_vars

\* C14 witness: /health was answered while the shutdown flag was set and an
\* /invoke request was in flight
C14_Witness ==
    /\ lastHealth # NothingDone
    /\ lastHealth.flag
    /\ lastHealth.busy
    /\ lastHealth.loaded
    /\ lastHealth.response = HealthResponse

\* a transport of the process has gone past the loading of its handler
PastLoading ==
    \/ pushPc \in {"serving", "exited"}
    \/ pollPc \notin {"none", "start"}
    \/ wsPc \notin {"none", "start"}

\* the process serves: the server listens, the loop fetches, the socket connects
Serving ==
    \/ pushPc = "serving"
    \/ pollPc \notin {"none", "start", "exited"}
    \/ wsPc \notin {"none", "start", "exited"}

\* nothing was served: no /invoke handled, no fetch, no POST, no connection
\* attempt, no handler call
NothingServed ==
    /\ lastDone = NothingDone
    /\ \A s \in DOMAIN inflight : inflight[s] = Idle
    /\ invocation = None
    /\ posts = <<>>
    /\ pollCalls = 0
    /\ fetchFailures = 0
    /\ connectCalls = 0
    /\ curCalls = <<>>
    /\ fallbackCalls = 0

SkippedFrames == {GarbageFrame, NonObjectFrame}

\* the frame taken in this step is handled as its type asks
HandledNormally ==
    /\ (cur'.type = "invocation" => wsPc' = "handler")
    /\ (cur'.type = "ping" /\ websocket = "open" /\ is_connected =>
            curSent' = <<[type |-> "pong"]>>)

\* C16: an inbound frame that is not valid JSON, or whose handling raises, is
\* skipped: the connection stays as it was (open, connected), reconnect_attempts
\* and reconnect_delay are unchanged, handle_reconnect is not called (no wait,
\* no fallback, no connection attempt), nothing is sent for the frame, and the
\* loop takes the next frame and handles it normally (an invocation goes to the
\* handler, a ping is answered with a pong).
C16_BadFrameSkipped ==
    /\ [][cur' # cur /\ cur' \in SkippedFrames =>
            /\ wsPc = "recv" /\ wsPc' = "recv"
            /\ UNCHANGED <<websocket, is_connected, reconnect_attempts, reconnect_delay,
                           depth, waits, connectCalls, fallbackCalls, should_stop>>
            /\ curSent' = <<>>
            /\ curCalls' = <<>>]_vars
    /\ [][(cur' # cur /\ cur \in SkippedFrames /\ cur' \in InboundFrames \ SkippedFrames) =>
            HandledNormally]_vars
    /\ [](cur \in SkippedFrames /\ wsPc = "recv" /\ websocket = "open" =>
            /\ is_connected
            /\ ENABLED (\E f \in InvocationFrames : Receive(f)))

\* C16 witness: a frame that is JSON but no object was skipped on an open,
\* connected socket with no reconnect attempt counted
C16_Witness ==
    /\ cur = NonObjectFrame
    /\ wsPc = "recv"
    /\ websocket = "open"
    /\ is_connected
    /\ reconnect_attempts = 0
    /\ curSent = <<>>
    /\ waits = <<>>

\* the connection ends in this step: the message loop stops receiving
ConnectionEnds == wsPc = "recv" /\ websocket = "open" /\ websocket' = "closed"

\* C17: whenever the connection ends in the message loop and no shutdown was
\* requested, whatever the way it ends, the transport becomes disconnected and
\* evaluates the reconnection policy: it starts the wait of a new connection
\* attempt or falls back; it never just stops.
C17_CloseLeadsToReconnect ==
    [][(ConnectionEnds /\ shutdownPc = "idle" /\ ~should_stop) =>
            /\ is_connected' = FALSE
            /\ \/ wsPc' = "sleep" /\ reconnect_attempts' = reconnect_attempts + 1
               \/ fallbackCalls' = fallbackCalls + 1]_vars

\* C18: once shutdown() has set should_stop, no new connection attempt is
\* started (also when the flag is set during the backoff sleep of
\* handle_reconnect) and no invocation is dispatched on a connection opened
\* after the request (shutdown() closes the socket that is open when it runs,
\* so a socket that is open while should_stop is set was opened afterwards).
C18_NoWorkAfterShutdown ==
    /\ [](should_stop /\ websocket = "open" => wsPc # "handler")
    /\ [][(should_stop /\ wsPc = "sleep") => wsPc' # "connect"]_vars

\* C19: a failed POST, to the response or to the error endpoint, never ends
\* the loop and is never retried: no endpoint is posted to twice for an
\* invocation, the handler is not called again for it, and the loop goes on to
\* the next fetch without sleeping (the 1-second sleep follows only a failed
\* fetch).
C19_PostFailureDropped ==
    /\ [](/\ pollPc \in {"fetch", "handler", "post_response", "post_error", "sleep"}
          /\ pollCalls <= 1
          /\ \A i, j \in 1..Len(posts) : posts[i].endpoint = posts[j].endpoint => i = j
          /\ (pollPc = "sleep" => fetchFailures >= 1))
    /\ [][/\ (pollPc \in {"post_response", "post_error"} =>
                /\ pollPc' \in {"post_error", "fetch"}
                /\ pollWait' = 0
                /\ pollCalls' = pollCalls)
          /\ (pollPc = "post_error" => pollPc' = "fetch")
          /\ (pollPc' = "sleep" /\ pollPc # "sleep" => pollPc = "fetch")]_vars

\* C19 witness: the response POST failed, the error POST failed too, and the
\* loop is back at the fetch after one handler call
C19_Witness ==
    /\ pollPc = "fetch"
    /\ pollCalls = 1
    /\ Len(posts) = 2
    /\ ~posts[1].delivered
    /\ ~posts[2].delivered
    /\ pollWait = 0

\* what may be sent for the invocation in cur: its response or its error
ReplyToCur(m) == m.type \in {"response", "error"} /\ m.request_id = cur.request_id

\* C20: at most one invocation is in flight and a handler call runs to
\* completion without yielding: from the start of the call to the emission of
\* its response/error no other frame is taken (no pong, no second call), and a
\* signal that arrives during the call only schedules the shutdown: should_stop
\* and the socket change only at a suspension point of the loop, after the call.
C20_HandlerRunsToCompletion ==
    /\ [](/\ Len(curCalls) <= 1
          /\ (wsPc = "handler" =>
                /\ cur \in InvocationFrames
                /\ curCalls = <<>>
                /\ curSent = <<>>
                /\ ENABLED (\E h \in Handlers : handle_invocation(h))))
    /\ [][wsPc = "handler" =>
            /\ cur' = cur
            /\ UNCHANGED <<should_stop, websocket, is_connected>>
            /\ wsPc' \in {"handler", "recv"}
            /\ (wsPc' = "handler" => UNCHANGED <<curCalls, curSent>>)
            /\ (wsPc' = "recv" =>
                    /\ Len(curCalls') = 1
                    /\ curCalls'[1].event = cur.payload
                    /\ \A i \in 1..Len(curSent') : ReplyToCur(curSent'[i]))]_vars
    /\ [][(should_stop' # should_stop \/ (websocket # "closing" /\ websocket' = "closing")) =>
            wsPc \in {"connect", "recv", "sleep"} /\ wsPc' = wsPc]_vars

\* C20 witness: a signal has arrived and its shutdown task is scheduled while
\* the handler call is in progress; should_stop is not set, the socket is open
C20_Witness ==
    /\ wsPc = "handler"
    /\ shutdownPc = "scheduled"
    /\ ~should_stop
    /\ websocket = "open"
    /\ is_connected

CurIs(type) == cur.kind = "message" /\ cur.type = type

\* the frame taken last was a JSON object that is neither invocation nor ping
CurIsOther == cur.kind = "message" /\ cur.type \notin {"invocation", "ping"}

\* routing of everything but the pong: the handler is called only for the
\* 'invocation' in cur; a 'ping' causes no handler call; an 'error_response' or
\* a message of another type causes no outbound message and no handler call,
\* and taking it changes neither the connection state nor the reconnect counters
RoutesByType ==
    /\ [](/\ (curCalls # <<>> => CurIs("invocation"))
          /\ (CurIs("ping") => curCalls = <<>> /\ Len(curSent) <= 1)
          /\ (CurIs("ping") => \A i \in 1..Len(curSent) : curSent[i] = [type |-> "pong"])
          /\ (CurIsOther => curCalls = <<>> /\ curSent = <<>>))
    /\ [][/\ (curCalls' # curCalls /\ curCalls' # <<>> =>
                wsPc = "handler" /\ CurIs("invocation") /\ cur' = cur)
          /\ (cur' # cur /\ cur'.kind = "message" /\ cur'.type # "invocation" =>
                /\ wsPc' = "recv"
                /\ UNCHANGED <<websocket, is_connected, reconnect_attempts,
                               reconnect_delay, depth, waits, connectCalls,
                               fallbackCalls>>)]_vars

\* C22 as stated: the handler is invoked only for 'invocation' messages; every
\* inbound 'ping' produces exactly one outbound 'pong' and no handler call; an
\* 'error_response' or a message of another type produces nothing and changes
\* neither the connection state nor the reconnect counters.
C22_Routing ==
    /\ RoutesByType
    /\ [](CurIs("ping") => curSent = <<[type |-> "pong"]>>)

\* C22 as amended: the same, with the pong owed only for a 'ping' taken while
\* the connection is open; a 'ping' taken after shutdown() has started to close
\* the socket produces no outbound message at all.
C22_RoutingWhileOpen ==
    /\ RoutesByType
    /\ [](CurIs("ping") /\ websocket = "open" => curSent = <<[type |-> "pong"]>>)
    /\ [][(cur' # cur /\ cur'.kind = "message" /\ cur'.type = "ping") =>
            curSent' = IF websocket = "open" THEN <<[type |-> "pong"]>> ELSE <<>>]_vars

\* C22 witness: a 'ping' was taken on the open connection and answered with
\* one 'pong', without a handler call
C22_Witness ==
    /\ CurIs("ping")
    /\ websocket = "open"
    /\ wsPc = "recv"
    /\ curSent = <<[type |-> "pong"]>>
    /\ curCalls = <<>>

\* C23: always 0 <= reconnect_attempts <= max_reconnect_attempts (10); the
\* counter is reset to 0 by every successful connection and otherwise changes
\* only by +1, once per reconnect attempt, so fallback_to_http is reached only
\* with 10 consecutive failed attempts counted: a connection that keeps being
\* established and then closed never leads to the fallback.
C23_AttemptsBounded ==
    /\ [](/\ 0 <= reconnect_attempts
          /\ reconnect_attempts <= max_reconnect_attempts
          /\ max_reconnect_attempts = 10)
    /\ [][/\ (connections' # connections => reconnect_attempts' = 0)
          /\ (reconnect_attempts' # reconnect_attempts /\ connections' = connections =>
                /\ reconnect_attempts' = reconnect_attempts + 1
                /\ wsPc' = "sleep")
          /\ (wsPc' = "sleep" /\ wsPc # "sleep" =>
                reconnect_attempts' = reconnect_attempts + 1)
          /\ (fallbackCalls' # fallbackCalls =>
                reconnect_attempts = max_reconnect_attempts)]_vars

\* the values reconnect_delay can take
DelayValues == {1, 2, 4, 8, 16, 30}

\* C24: reconnect_delay is always one of 1, 2, 4, 8, 16, 30 (so between 1 and
\* 30 seconds), it never decreases, a successful connection does not reset it,
\* and every backoff wait performed is between 1 and 30 seconds.
C24_DelayBounded ==
    /\ [](/\ reconnect_delay \in DelayValues
          /\ InitialReconnectDelay <= reconnect_delay
          /\ reconnect_delay <= MaxReconnectDelay
          /\ \A i \in 1..Len(waits) : 1 <= waits[i] /\ waits[i] <= 30)
    /\ [][/\ reconnect_delay' >= reconnect_delay
          /\ (connections' # connections => reconnect_delay' = reconnect_delay)
          /\ (Len(waits') > Len(waits) => waits'[Len(waits')] = reconnect_delay)]_vars

\* C24 witness: after ten waits the delay has reached the cap of 30 seconds
\* (the doubling from 16 gives 32, which is cut to 30)
C24_Witness ==
    /\ reconnect_delay = 30
    /\ Len(waits) = 10
    /\ wsPc \in {"unwind", "done"}

====
